---- MODULE Spec2Model ----
(***************************************************************************)
(* The swarm simulation of tools/bin/simulation:                           *)
(*   procedural_generated_graph.py  (strategy "A", greedy bounded random)  *)
(*   random_regular_graph.py        (strategy "B", networkx regular graph) *)
(* Both scripts share Peer and PeerManager.start; they differ only in      *)
(* PeerManager.__init__.  A behaviour is one execution of main(): the      *)
(* construction of the PeerManager followed by start().                    *)
(*                                                                         *)
(* Peers are named by their creation index (Peer.name is str(n)).  The     *)
(* module-level constants of the scripts are the configuration of a run;   *)
(* they are chosen in Init from small ranges and never change.             *)
(***************************************************************************)
EXTENDS Integers, Sequences, FiniteSets, TLC

\* ---------------------------------------------------------------- bounds
MaxPeers == 3
MaxPieces == 2
MaxTransmit == 2
MaxLimit == 2
MaxDegree == 2
\* the literal 50 of `failed_connection_attempts > 50`, scaled down
FailureBudget == 1
\* the literal 1000 of `time > 1000`, scaled down
RoundCap == 2

VARIABLES
    strategy,                \* which script runs: "A" or "B"
    PEER_COUNT,
    PIECE_COUNT,
    PIECE_TRANSMIT_LIMIT,
    SOFT_CONNECTION_LIMIT,   \* script A only (0 under B)
    MAX_CONNECTION_LIMIT,    \* script A only (0 under B)
    DEGREE,                  \* script B only (0 under A)
    pc,                      \* position in main()
    peers,                   \* PeerManager.peers: the list of peer names
    n,                       \* loop variable of `for n in range(PEER_COUNT)`
    ci,                      \* position of `for candidate in self.peers`
    failed_connection_attempts,
    neighbors,
    pieces,
    completed,
    time,                    \* Peer.time
    uploaded_current_turn,
    downloaded_current_turn,
    now,                     \* the local `time` of PeerManager.start
    plan,                    \* work-items of the round not yet processed
    done                     \* the local `done` of PeerManager.start

config == <<strategy, PEER_COUNT, PIECE_COUNT, PIECE_TRANSMIT_LIMIT,
            SOFT_CONNECTION_LIMIT, MAX_CONNECTION_LIMIT, DEGREE>>
graph == <<peers, n, ci, failed_connection_attempts, neighbors>>
turn == <<uploaded_current_turn, downloaded_current_turn>>
vars == <<config, pc, graph, pieces, completed, time, turn, now, plan, done>>

\* ------------------------------------------------------------- helpers
Range(s) == {s[i] : i \in DOMAIN s}

\* every order random.shuffle can leave a list in
Shuffles(s) ==
    {t \in [DOMAIN s -> Range(s)] : \A i, j \in DOMAIN s : i # j => t[i] # t[j]}

PieceIndex == 0 .. PIECE_COUNT - 1

\* the peers that exist so far
Created == DOMAIN pieces

\* ------------------------------------------------------------- class Peer
\* Peer.__init__: the fields of a fresh peer, added to every field map
NewPeer(f, name, v) == f @@ (name :> v)

\* Peer.connect without its second line: only one side records the edge
Connect_OneWay(nb, self, other) == [nb EXCEPT ![self] = nb[self] \cup {other}]

\* Peer.connect
Connect(nb, self, other) ==
    [nb EXCEPT ![self] = nb[self] \cup {other}, ![other] = nb[other] \cup {self}]

\* Peer.done
Done(p) == completed[p] = PIECE_COUNT

\* fetch_step without the uploader's quota test
Candidates_NoUploadQuota(p) ==
    {c \in neighbors[p] \X PieceIndex :
        pieces[c[1]][c[2]] = 1 /\ pieces[p][c[2]] = 0}

\* fetch_step without the test that the piece is missing here
Candidates_OwnedToo(p) ==
    {c \in neighbors[p] \X PieceIndex :
        uploaded_current_turn[c[1]] < PIECE_TRANSMIT_LIMIT /\ pieces[c[1]][c[2]] = 1}

\* fetch_step with <= for < in the uploader's quota test
Candidates_QuotaInclusive(p) ==
    {c \in neighbors[p] \X PieceIndex :
        /\ uploaded_current_turn[c[1]] <= PIECE_TRANSMIT_LIMIT
        /\ pieces[c[1]][c[2]] = 1
        /\ pieces[p][c[2]] = 0}

\* fetch_step taking pieces only from neighbours that are complete
Candidates_CompleteUploaders(p) ==
    {c \in neighbors[p] \X PieceIndex :
        /\ uploaded_current_turn[c[1]] < PIECE_TRANSMIT_LIMIT
        /\ completed[c[1]] = PIECE_COUNT
        /\ pieces[c[1]][c[2]] = 1
        /\ pieces[p][c[2]] = 0}

\* fetch_step looking at every other peer instead of its neighbours
Candidates_AnyPeer(p) ==
    {c \in (DOMAIN pieces \ {p}) \X PieceIndex :
        /\ uploaded_current_turn[c[1]] < PIECE_TRANSMIT_LIMIT
        /\ pieces[c[1]][c[2]] = 1
        /\ pieces[p][c[2]] = 0}

\* the candidates list of Peer.fetch_step
Candidates(p) ==
    {c \in neighbors[p] \X PieceIndex :
        /\ uploaded_current_turn[c[1]] < PIECE_TRANSMIT_LIMIT
        /\ pieces[c[1]][c[2]] = 1
        /\ pieces[p][c[2]] = 0}

\* the download quota test one piece too early
FetchReturnsEarly_QuotaOffByOne(p) ==
    \/ completed[p] = PIECE_COUNT
    \/ downloaded_current_turn[p] + 1 >= PIECE_TRANSMIT_LIMIT
    \/ Candidates(p) = {}

\* does this call of fetch_step return before choosing a candidate
FetchReturnsEarly(p) ==
    \/ Done(p)
    \/ downloaded_current_turn[p] >= PIECE_TRANSMIT_LIMIT
    \/ Candidates(p) = {}

\* `if self.completed == len(self.pieces)-1: self.time = time`
FinishTime(p, cnt, t) == IF cnt = PIECE_COUNT - 1 THEN t ELSE time[p]

\* fetch_step moving the piece instead of copying it
Transfer_Moves(p, c) ==
    /\ pieces' = [pieces EXCEPT ![p][c[2]] = 1, ![c[1]][c[2]] = 0]
    /\ completed' = [completed EXCEPT ![p] = completed[p] + 1,
                                      ![c[1]] = completed[c[1]] - 1]
    /\ downloaded_current_turn' =
           [downloaded_current_turn EXCEPT ![p] = downloaded_current_turn[p] + 1]
    /\ uploaded_current_turn' =
           [uploaded_current_turn EXCEPT ![c[1]] = uploaded_current_turn[c[1]] + 1]
    /\ time' = [time EXCEPT ![p] = FinishTime(p, completed[p] + 1, now)]

\* fetch_step counting the piece for the uploader instead of the downloader
Transfer_CountsUploader(p, c) ==
    /\ pieces' = [pieces EXCEPT ![p][c[2]] = 1]
    /\ completed' = [completed EXCEPT ![c[1]] = completed[c[1]] + 1]
    /\ downloaded_current_turn' =
           [downloaded_current_turn EXCEPT ![p] = downloaded_current_turn[p] + 1]
    /\ uploaded_current_turn' =
           [uploaded_current_turn EXCEPT ![c[1]] = uploaded_current_turn[c[1]] + 1]
    /\ time' = [time EXCEPT ![p] = FinishTime(p, completed[p] + 1, now)]

\* fetch_step without `c[0].uploaded_current_turn += 1`
Transfer_NoUploadCount(p, c) ==
    /\ pieces' = [pieces EXCEPT ![p][c[2]] = 1]
    /\ completed' = [completed EXCEPT ![p] = completed[p] + 1]
    /\ downloaded_current_turn' =
           [downloaded_current_turn EXCEPT ![p] = downloaded_current_turn[p] + 1]
    /\ uploaded_current_turn' = uploaded_current_turn
    /\ time' = [time EXCEPT ![p] = FinishTime(p, completed[p] + 1, now)]

\* fetch_step copying every piece of the neighbour at once
Transfer_TakesAll(p, c) ==
    /\ pieces' = [pieces EXCEPT ![p] =
                     [i \in PieceIndex |-> IF pieces[c[1]][i] = 1 THEN 1 ELSE pieces[p][i]]]
    /\ completed' = [completed EXCEPT ![p] =
                        Cardinality({i \in PieceIndex : pieces'[p][i] = 1})]
    /\ downloaded_current_turn' =
           [downloaded_current_turn EXCEPT ![p] = downloaded_current_turn[p] + 1]
    /\ uploaded_current_turn' =
           [uploaded_current_turn EXCEPT ![c[1]] = uploaded_current_turn[c[1]] + 1]
    /\ time' = [time EXCEPT ![p] = FinishTime(p, completed[p] + 1, now)]

\* fetch_step without `self.downloaded_current_turn += 1`
Transfer_NoDownloadCount(p, c) ==
    /\ pieces' = [pieces EXCEPT ![p][c[2]] = 1]
    /\ completed' = [completed EXCEPT ![p] = completed[p] + 1]
    /\ downloaded_current_turn' = downloaded_current_turn
    /\ uploaded_current_turn' =
           [uploaded_current_turn EXCEPT ![c[1]] = uploaded_current_turn[c[1]] + 1]
    /\ time' = [time EXCEPT ![p] = FinishTime(p, completed[p] + 1, now)]

\* the assignments of fetch_step after random.choice returned c
Transfer(p, c) ==
    /\ pieces' = [pieces EXCEPT ![p][c[2]] = 1]
    /\ completed' = [completed EXCEPT ![p] = completed[p] + 1]
    /\ downloaded_current_turn' =
           [downloaded_current_turn EXCEPT ![p] = downloaded_current_turn[p] + 1]
    /\ uploaded_current_turn' =
           [uploaded_current_turn EXCEPT ![c[1]] = uploaded_current_turn[c[1]] + 1]
    /\ time' = [time EXCEPT ![p] = FinishTime(p, completed[p] + 1, now)]

\* a cleanup that skips the peers that are done
FetchCleanup_SkipsDone(f) == [p \in DOMAIN f |-> IF Done(p) THEN f[p] ELSE 0]

\* Peer.fetch_cleanup, for every peer
FetchCleanup(f) == [p \in DOMAIN f |-> 0]

\* ------------------------------------------------- PeerManager.__init__
\* `peer = Peer(str(n), PIECE_COUNT)`
CreateFields(name) ==
    /\ neighbors' = NewPeer(neighbors, name, {})
    /\ pieces' = NewPeer(pieces, name, [i \in PieceIndex |-> 0])
    /\ completed' = NewPeer(completed, name, 0)
    /\ time' = NewPeer(time, name, 0)
    /\ uploaded_current_turn' = NewPeer(uploaded_current_turn, name, 0)
    /\ downloaded_current_turn' = NewPeer(downloaded_current_turn, name, 0)

\* script A, loop body for n: create the peer; peer 0 is appended at once,
\* a later peer first shuffles self.peers and starts the candidate loop
CreatePeer ==
    /\ pc = "build"
    /\ strategy = "A"
    /\ n < PEER_COUNT
    /\ CreateFields(n)
    /\ failed_connection_attempts' = NewPeer(failed_connection_attempts, n, 0)
    /\ IF n > 0
       THEN /\ peers' \in Shuffles(peers)
            /\ ci' = 1
            /\ pc' = "connect"
            /\ n' = n
       ELSE /\ peers' = Append(peers, n)
            /\ n' = n + 1
            /\ UNCHANGED <<ci, pc>>
    /\ UNCHANGED <<config, now, plan, done>>

\* the candidate loop ends (break, or the list is exhausted): append the peer
EndOfCandidates(stop) ==
    IF stop \/ ci = Len(peers)
    THEN /\ peers' = Append(peers, n)
         /\ n' = n + 1
         /\ ci' = 0
         /\ pc' = "build"
    ELSE /\ ci' = ci + 1
         /\ UNCHANGED <<peers, n, pc>>

\* the limit test one connection short
Accepts_OneShort(candidate) ==
    Cardinality(neighbors[candidate]) + 1 < MAX_CONNECTION_LIMIT

\* the limit test with <= for <
Accepts_OffByOne(candidate) ==
    Cardinality(neighbors[candidate]) <= MAX_CONNECTION_LIMIT

\* `len(candidate.neighbors) < MAX_CONNECTION_LIMIT`
Accepts(candidate) == Cardinality(neighbors[candidate]) < MAX_CONNECTION_LIMIT

\* the candidate loop without the break at the soft limit
ConnectCandidate_NoSoftStop ==
    /\ pc = "connect"
    /\ Accepts(peers[ci])
    /\ neighbors' = Connect(neighbors, n, peers[ci])
    /\ EndOfCandidates(FALSE)
    /\ UNCHANGED <<config, failed_connection_attempts, pieces, completed, time,
                   turn, now, plan, done>>

\* script A: the candidate has room, connect to it
ConnectCandidate ==
    /\ pc = "connect"
    /\ Accepts(peers[ci])
    /\ neighbors' = Connect(neighbors, n, peers[ci])
    /\ EndOfCandidates(Cardinality(neighbors'[n]) >= SOFT_CONNECTION_LIMIT)
    /\ UNCHANGED <<config, failed_connection_attempts, pieces, completed, time,
                   turn, now, plan, done>>

\* the candidate loop without `peer.failed_connection_attempts += 1`
RejectCandidate_NoCount ==
    /\ pc = "connect"
    /\ ~Accepts(peers[ci])
    /\ failed_connection_attempts' = failed_connection_attempts
    /\ EndOfCandidates(failed_connection_attempts'[n] > FailureBudget)
    /\ UNCHANGED <<config, neighbors, pieces, completed, time, turn, now, plan, done>>

\* the budget test with >= for >
RejectCandidate_StopsEarly ==
    /\ pc = "connect"
    /\ ~Accepts(peers[ci])
    /\ failed_connection_attempts' =
           [failed_connection_attempts EXCEPT ![n] = failed_connection_attempts[n] + 1]
    /\ EndOfCandidates(failed_connection_attempts'[n] >= FailureBudget)
    /\ UNCHANGED <<config, neighbors, pieces, completed, time, turn, now, plan, done>>

\* script A: the candidate is saturated
RejectCandidate ==
    /\ pc = "connect"
    /\ ~Accepts(peers[ci])
    /\ failed_connection_attempts' =
           [failed_connection_attempts EXCEPT ![n] = failed_connection_attempts[n] + 1]
    /\ EndOfCandidates(failed_connection_attempts'[n] > FailureBudget)
    /\ UNCHANGED <<config, neighbors, pieces, completed, time, turn, now, plan, done>>

\* `self.peers.sort()`: Peer defines no ordering, so Python 2 orders the
\* objects by address.  Any peer can come first; the order of the others is
\* never read again (the plan is shuffled, cleanup and the done test do not
\* depend on it), so it is kept by name.
SortedPeers ==
    {<<first>> \o SelectSeq([i \in 1 .. PEER_COUNT |-> i - 1], LAMBDA q : q # first) :
        first \in Range(peers)}

\* "Set peer 0 to be the seeder.": `self.peers[0].pieces = [1]*PIECE_COUNT`
SeedPieces(ps, order) == [ps EXCEPT ![order[1]] = [i \in PieceIndex |-> 1]]

\* the seeder's counter set one short
SeedCompleted_OneShort(cs, order) == [cs EXCEPT ![order[1]] = PIECE_COUNT - 1]

\* `self.peers[0].completed = len(self.peers[0].pieces)`
SeedCompleted(cs, order) == [cs EXCEPT ![order[1]] = PIECE_COUNT]

\* script A: the rest of __init__ after the construction loop
SortAndSeed ==
    /\ pc = "build"
    /\ strategy = "A"
    /\ n = PEER_COUNT
    /\ peers' \in SortedPeers
    /\ pieces' = SeedPieces(pieces, peers')
    /\ completed' = SeedCompleted(completed, peers')
    /\ pc' = "plan"
    /\ UNCHANGED <<config, n, ci, failed_connection_attempts, neighbors, time,
                   turn, now, plan, done>>

\* the unordered pairs of distinct nodes
Pairs(nodes) == {e \in SUBSET nodes : Cardinality(e) = 2}

\* nx.random_regular_graph(d, cnt): every simple d-regular graph on 0..cnt-1
RandomRegularGraphs(d, cnt) ==
    {g \in SUBSET Pairs(0 .. cnt - 1) :
        \A v \in 0 .. cnt - 1 : Cardinality({e \in g : v \in e}) = d}

\* nx.random_regular_graph raises NetworkXError for these arguments
RegularGraphImpossible(d, cnt) == (cnt * d) % 2 # 0 \/ ~(0 <= d /\ d < cnt)

\* the edge loop connecting e[0] to itself
RECURSIVE ConnectEdges_SameEnd(_, _)
ConnectEdges_SameEnd(nb, g) ==
    IF g = {} THEN nb
    ELSE LET e == CHOOSE x \in g : TRUE
             a == CHOOSE x \in e : TRUE
         IN  ConnectEdges_SameEnd(Connect(nb, a, a), g \ {e})

\* `for e in g.edges(): self.peers[e[0]].connect(self.peers[e[1]])`
RECURSIVE ConnectEdges(_, _)
ConnectEdges(nb, g) ==
    IF g = {} THEN nb
    ELSE LET e == CHOOSE x \in g : TRUE
             a == CHOOSE x \in e : TRUE
             b == CHOOSE x \in e : x # a
         IN  ConnectEdges(Connect(nb, a, b), g \ {e})

\* script B: the whole of __init__
BuildRegular ==
    /\ pc = "build"
    /\ strategy = "B"
    /\ ~RegularGraphImpossible(DEGREE, PEER_COUNT)
    /\ \E g \in RandomRegularGraphs(DEGREE, PEER_COUNT) :
        LET names == 0 .. PEER_COUNT - 1 IN
        /\ peers' = [i \in 1 .. PEER_COUNT |-> i - 1]
        /\ neighbors' = ConnectEdges([p \in names |-> {}], g)
        /\ pieces' = SeedPieces([p \in names |-> [i \in PieceIndex |-> 0]], peers')
        /\ completed' = SeedCompleted([p \in names |-> 0], peers')
        /\ time' = [p \in names |-> 0]
        /\ uploaded_current_turn' = [p \in names |-> 0]
        /\ downloaded_current_turn' = [p \in names |-> 0]
    /\ n' = PEER_COUNT
    /\ pc' = "plan"
    /\ UNCHANGED <<config, ci, failed_connection_attempts, now, plan, done>>

\* an __init__ that swallows the exception and goes on without a graph
BuildRegularFails_Swallowed ==
    /\ pc = "build"
    /\ strategy = "B"
    /\ RegularGraphImpossible(DEGREE, PEER_COUNT)
    /\ pc' = "plan"
    /\ UNCHANGED <<config, graph, pieces, completed, time, turn, now, plan, done>>

\* script B: networkx rejects the arguments, the exception ends the program
BuildRegularFails ==
    /\ pc = "build"
    /\ strategy = "B"
    /\ RegularGraphImpossible(DEGREE, PEER_COUNT)
    /\ pc' = "error"
    /\ UNCHANGED <<config, graph, pieces, completed, time, turn, now, plan, done>>

\* ---------------------------------------------------- PeerManager.start
\* a plan with one entry too many for every peer not done
NewPlan_OneMore ==
    [p \in DOMAIN pieces |->
        IF completed[p] = PIECE_COUNT THEN 0 ELSE PIECE_TRANSMIT_LIMIT + 1]

\* a plan without the done test: entries for every peer
NewPlan_AllPeers == [p \in DOMAIN pieces |-> PIECE_TRANSMIT_LIMIT]

\* a plan without the inner loop: one entry for every peer not done
NewPlan_OneEach == [p \in DOMAIN pieces |-> IF Done(p) THEN 0 ELSE 1]

\* the plan of a round: PIECE_TRANSMIT_LIMIT entries for every peer not done
NewPlan == [p \in Created |-> IF Done(p) THEN 0 ELSE PIECE_TRANSMIT_LIMIT]

\* a loop head that forgets `time += 1`
StartRound_NoTick ==
    /\ pc = "plan"
    /\ plan' = [p \in DOMAIN pieces |->
                 IF completed[p] = PIECE_COUNT THEN 0 ELSE PIECE_TRANSMIT_LIMIT]
    /\ pc' = "fetch"
    /\ UNCHANGED <<config, graph, pieces, completed, time, turn, now, done>>

\* top of the while loop: advance the clock, build and shuffle the plan
StartRound ==
    /\ pc = "plan"
    /\ now' = now + 1
    /\ plan' = NewPlan
    /\ pc' = "fetch"
    /\ UNCHANGED <<config, graph, pieces, completed, time, turn, done>>

\* a fetch_step that counts a download before its early returns
FetchStep_CountsAttempt(p) ==
    /\ pc = "fetch"
    /\ plan[p] > 0
    /\ plan' = [plan EXCEPT ![p] = plan[p] - 1]
    /\ IF FetchReturnsEarly(p)
       THEN /\ downloaded_current_turn' =
                   [downloaded_current_turn EXCEPT ![p] = downloaded_current_turn[p] + 1]
            /\ UNCHANGED <<pieces, completed, time, uploaded_current_turn>>
       ELSE \E c \in Candidates(p) : Transfer(p, c)
    /\ UNCHANGED <<config, pc, graph, now, done>>

\* `for p in plan: p.fetch_step(time)`, one iteration.  The plan was
\* shuffled, so the next entry can be any entry that is left.
FetchStep(p) ==
    /\ pc = "fetch"
    /\ plan[p] > 0
    /\ plan' = [plan EXCEPT ![p] = plan[p] - 1]
    /\ IF FetchReturnsEarly(p)
       THEN UNCHANGED <<pieces, completed, time, turn>>
       ELSE \E c \in Candidates(p) : Transfer(p, c)
    /\ UNCHANGED <<config, pc, graph, now, done>>

\* a cleanup that resets the download counters only
Cleanup_KeepsUploaded ==
    /\ pc = "fetch"
    /\ \A p \in DOMAIN pieces : plan[p] = 0
    /\ downloaded_current_turn' = FetchCleanup(downloaded_current_turn)
    /\ pc' = "check"
    /\ UNCHANGED <<config, graph, pieces, completed, time, now, plan, done,
                   uploaded_current_turn>>

\* a cleanup that also forgets the neighbours
Cleanup_ClearsNeighbors ==
    /\ pc = "fetch"
    /\ \A p \in DOMAIN pieces : plan[p] = 0
    /\ uploaded_current_turn' = FetchCleanup(uploaded_current_turn)
    /\ downloaded_current_turn' = FetchCleanup(downloaded_current_turn)
    /\ neighbors' = [p \in DOMAIN neighbors |-> {}]
    /\ pc' = "check"
    /\ UNCHANGED <<config, peers, n, ci, failed_connection_attempts, pieces,
                   completed, time, now, plan, done>>

\* `for p in self.peers: p.fetch_cleanup()`
Cleanup ==
    /\ pc = "fetch"
    /\ \A p \in Created : plan[p] = 0
    /\ uploaded_current_turn' = FetchCleanup(uploaded_current_turn)
    /\ downloaded_current_turn' = FetchCleanup(downloaded_current_turn)
    /\ pc' = "check"
    /\ UNCHANGED <<config, graph, pieces, completed, time, now, plan, done>>

\* the done test of start
AllDone == \A p \in Range(peers) : completed[p] = PIECE_COUNT

\* the cap test against cap + 1
CheckDone_CapLate ==
    /\ pc = "check"
    /\ done' = AllDone
    /\ pc' = IF done' \/ now > RoundCap + 1 THEN "finished" ELSE "plan"
    /\ UNCHANGED <<config, graph, pieces, completed, time, turn, now, plan>>

\* a loop end that leaves the loop at the cap only
CheckDone_CapOnly ==
    /\ pc = "check"
    /\ done' = AllDone
    /\ pc' = IF now > RoundCap THEN "finished" ELSE "plan"
    /\ UNCHANGED <<config, graph, pieces, completed, time, turn, now, plan>>

\* the end of the loop body: `if done: break`, `if time > 1000: break`
CheckDone ==
    /\ pc = "check"
    /\ done' = AllDone
    /\ pc' = IF done' \/ now > RoundCap THEN "finished" ELSE "plan"
    /\ UNCHANGED <<config, graph, pieces, completed, time, turn, now, plan>>

\* ---------------------------------------------------------------- runs
Init ==
    /\ strategy \in {"A", "B"}
    /\ PEER_COUNT \in 1 .. MaxPeers
    /\ PIECE_COUNT \in 1 .. MaxPieces
    /\ PIECE_TRANSMIT_LIMIT \in 1 .. MaxTransmit
    \* nothing validates the limits.  A soft limit of 0 behaves as 1 (the
    \* test follows a connect) and is not drawn; a max limit of 0 is.
    /\ SOFT_CONNECTION_LIMIT \in (IF strategy = "A" THEN 1 .. MaxLimit ELSE {0})
    /\ MAX_CONNECTION_LIMIT \in (IF strategy = "A" THEN 0 .. MaxLimit ELSE {0})
    /\ DEGREE \in (IF strategy = "B" THEN 1 .. MaxDegree ELSE {0})
    /\ pc = "build"
    /\ peers = <<>>
    /\ n = 0
    /\ ci = 0
    /\ failed_connection_attempts = <<>>
    /\ neighbors = <<>>
    /\ pieces = <<>>
    /\ completed = <<>>
    /\ time = <<>>
    /\ uploaded_current_turn = <<>>
    /\ downloaded_current_turn = <<>>
    /\ now = 0
    /\ plan = <<>>
    /\ done = FALSE

Next ==
    \/ CreatePeer
    \/ ConnectCandidate
    \/ RejectCandidate
    \/ SortAndSeed
    \/ BuildRegular
    \/ BuildRegularFails
    \/ StartRound
    \/ \E p \in Created : FetchStep(p)
    \/ Cleanup
    \/ CheckDone

Spec == Init /\ [][Next]_vars

\* `print ('Done. Total time: %d.' % time)`: what start() reports at its end
Report == [total_time |-> now]

\* ------------------------------------------------------------ properties
\* main() is past the construction: start() is running or has returned
Running == pc \in {"plan", "fetch", "check", "finished"}

\* the peer chosen as seeder
Seeder == peers[1]

Owned(p) == {i \in PieceIndex : pieces[p][i] = 1}

\* the peers connected to the members of S by a path
RECURSIVE Closure(_)
Closure(S) ==
    LET T == S \cup UNION {neighbors[p] : p \in S}
    IN  IF T = S THEN S ELSE Closure(T)

SeedComponent == Closure({Seeder})

\* C1: quota bound.  In every reachable state, also between two work-items
\* of a round, no peer has uploaded or downloaded more than
\* PIECE_TRANSMIT_LIMIT pieces in the current round.
C1_QuotaBound ==
    \A p \in Created :
        /\ uploaded_current_turn[p] <= PIECE_TRANSMIT_LIMIT
        /\ downloaded_current_turn[p] <= PIECE_TRANSMIT_LIMIT

\* a round in progress where an uploader has used its whole quota while a
\* neighbour that still has a work-item lacks a piece it owns, and some peer
\* has downloaded its whole quota
C1_Witness ==
    /\ pc = "fetch"
    /\ \E u \in Created :
        /\ uploaded_current_turn[u] = PIECE_TRANSMIT_LIMIT
        /\ \E r \in neighbors[u] :
            /\ plan[r] > 0
            /\ downloaded_current_turn[r] < PIECE_TRANSMIT_LIMIT
            /\ Owned(u) \ Owned(r) # {}
    /\ \E d \in Created : downloaded_current_turn[d] = PIECE_TRANSMIT_LIMIT

\* C2: in every reachable state the completed counter of every peer is the
\* number of pieces it owns, hence between 0 and PIECE_COUNT.
C2_CompletedIsPopulation ==
    \A p \in Created :
        /\ completed[p] = Cardinality(Owned(p))
        /\ 0 <= completed[p]
        /\ completed[p] <= PIECE_COUNT

\* a peer other than the seeder holds some but not all pieces, mid-round
C2_Witness ==
    /\ pc = "fetch"
    /\ \E p \in Created \ {Seeder} : 0 < completed[p] /\ completed[p] < PIECE_COUNT

\* C3: the neighbour relation is symmetric and irreflexive in every state:
\* during the construction loop of script A and in the graph either script
\* ends with.
C3_SymmetricIrreflexive ==
    \A a \in Created :
        /\ a \notin neighbors[a]
        /\ \A b \in neighbors[a] : b \in Created /\ a \in neighbors[b]

\* script A, inside the candidate loop of a peer that already has a neighbour
\* and has another candidate to try
C3_Witness ==
    /\ strategy = "A"
    /\ pc = "connect"
    /\ neighbors[n] # {}
    /\ ci <= Len(peers)

\* C4: script A with SOFT_CONNECTION_LIMIT <= MAX_CONNECTION_LIMIT: after
\* every step of the construction and afterwards no peer has more than
\* MAX_CONNECTION_LIMIT neighbours, whatever the shuffles.
C4_DegreeAtMostMax ==
    (strategy = "A" /\ SOFT_CONNECTION_LIMIT <= MAX_CONNECTION_LIMIT) =>
        \A p \in Created : Cardinality(neighbors[p]) <= MAX_CONNECTION_LIMIT

\* script A built a graph of MaxPeers peers in which a saturated candidate
\* turned a peer away
C4_Witness ==
    /\ strategy = "A"
    /\ SOFT_CONNECTION_LIMIT <= MAX_CONNECTION_LIMIT
    /\ PEER_COUNT = MaxPeers
    /\ pc = "plan"
    /\ \E p \in Created : failed_connection_attempts[p] > 0
    /\ \E p \in Created : Cardinality(neighbors[p]) = MAX_CONNECTION_LIMIT

\* C5: script B with arguments networkx accepts: the graph it builds is
\* simple and every peer has exactly DEGREE neighbours.
C5_RegularGraph ==
    (strategy = "B" /\ Running) =>
        /\ Created = 0 .. PEER_COUNT - 1
        /\ \A p \in Created :
            /\ Cardinality(neighbors[p]) = DEGREE
            /\ p \notin neighbors[p]
            /\ \A q \in neighbors[p] : q \in Created /\ p \in neighbors[q]

\* script B built a graph of three or more peers with a positive degree
C5_Witness ==
    /\ strategy = "B"
    /\ pc = "plan"
    /\ now = 0
    /\ PEER_COUNT >= 3
    /\ DEGREE >= 1
    /\ \A p \in Created : Cardinality(neighbors[p]) = DEGREE

\* C6: when start() is entered, before the first round, exactly one peer,
\* the seeder, owns every piece with completed = PIECE_COUNT, and every
\* other peer owns no piece with completed = 0.
C6_InitialOwnership ==
    (pc = "plan" /\ now = 0) =>
        /\ Seeder \in Created
        /\ Owned(Seeder) = PieceIndex
        /\ completed[Seeder] = PIECE_COUNT
        /\ \A p \in Created \ {Seeder} : Owned(p) = {} /\ completed[p] = 0

\* start() is entered with a seeder and at least one other peer
C6_Witness ==
    /\ pc = "plan"
    /\ now = 0
    /\ PEER_COUNT >= 2
    /\ completed[Seeder] = PIECE_COUNT

\* C7: monotonicity.  No step (a work-item, a round-end reset, any other)
\* lowers the completed counter of a peer or takes a piece away from it.
C7_Monotonic ==
    [][\A p \in Created :
          /\ completed'[p] >= completed[p]
          /\ \A i \in PieceIndex : pieces[p][i] = 1 => pieces'[p][i] = 1]_vars

\* after the reset of the second round a peer keeps what it downloaded
C7_Witness ==
    /\ pc = "check"
    /\ now = 2
    /\ \E p \in Created \ {Seeder} : completed[p] > 0

\* C8: a peer that is complete stays complete: from then on its pieces and
\* its completed counter never change and it downloads nothing.
C8_CompleteIsFinal ==
    [][\A p \in Created :
          completed[p] = PIECE_COUNT =>
              /\ completed'[p] = PIECE_COUNT
              /\ pieces'[p] = pieces[p]
              /\ downloaded_current_turn'[p] <= downloaded_current_turn[p]]_vars

\* a peer other than the seeder completed during a round and still has a
\* work-item of that round to process
C8_Witness ==
    /\ pc = "fetch"
    /\ \E p \in Created \ {Seeder} : completed[p] = PIECE_COUNT /\ plan[p] > 0

\* C9: round-end reset.  After the cleanup of a round, and so at the start
\* of every round, both per-round counters of every peer are 0.
C9_RoundEndReset ==
    pc \in {"plan", "check", "finished"} =>
        \A p \in Created :
            uploaded_current_turn[p] = 0 /\ downloaded_current_turn[p] = 0

\* the cleanup of a round in which pieces were transferred, with one peer
\* complete and another not
C9_Witness ==
    /\ pc = "check"
    /\ now = 1
    /\ \E p, q \in Created \ {Seeder} :
        completed[p] = PIECE_COUNT /\ 0 < completed[q] /\ completed[q] < PIECE_COUNT

\* C10: during a run a peer outside the connected component of the seeder
\* owns nothing, so a run with such a peer never finds every peer complete.
C10_UnreachableStaysEmpty ==
    Running =>
        /\ \A p \in Created \ SeedComponent : completed[p] = 0 /\ Owned(p) = {}
        /\ (Created \ SeedComponent # {}) => ~AllDone /\ ~done

\* the run stopped at the round cap: a peer beside the seeder is complete
\* and a peer the seeder cannot reach still owns nothing
C10_Witness ==
    /\ pc = "finished"
    /\ Created \ SeedComponent # {}
    /\ \E p \in SeedComponent \ {Seeder} : completed[p] = PIECE_COUNT
    /\ now = RoundCap + 1

\* main() has nothing left to execute: start() returned, or the constructor
\* raised
Terminated == pc \in {"finished", "error"}

\* the work-items left in the plan
RECURSIVE Total(_, _)
Total(f, S) ==
    IF S = {} THEN 0
    ELSE LET x == CHOOSE y \in S : TRUE IN f[x] + Total(f, S \ {x})

\* an upper bound of the steps one round takes: the head of the loop, its
\* work-items, the cleanup and the done test
RoundSteps == PIECE_TRANSMIT_LIMIT * PEER_COUNT + 3

\* an upper bound of the steps main() has left to execute
StepsLeft ==
    LET rounds == (RoundCap + 1 - now) * RoundSteps
        build == (RoundCap + 1) * RoundSteps + 1 + (PEER_COUNT - n) * (PEER_COUNT + 1)
    IN  CASE pc = "build" -> build
          [] pc = "connect" -> build - ci
          [] pc = "plan" -> rounds
          [] pc = "fetch" -> rounds + Total(plan, DOMAIN plan) + 2
          [] pc = "check" -> rounds + 1
          [] OTHER -> 0

\* C11: every run terminates.  While main() has not ended it can take a
\* step, and every step lowers a bound of the steps left, so no execution is
\* infinite; start() leaves its loop when every peer is complete or when the
\* clock has passed the cap, and goes on to another round only when neither
\* holds.
C11_Terminates ==
    /\ [](Terminated \/ ENABLED Next)
    /\ [][StepsLeft' < StepsLeft /\ StepsLeft' >= 0]_vars
    /\ [](pc = "finished" => (done = AllDone) /\ (done \/ now > RoundCap))
    /\ []((pc = "plan" /\ now > 0) => ~AllDone /\ now <= RoundCap)

\* the run converged in the last round the cap allows
C11_Witness ==
    /\ pc = "finished"
    /\ done
    /\ now = RoundCap + 1

\* C12: a run that passes the cap before every peer is complete ends
\* normally and its report marks it as not converged.  The report holds the
\* total time only, and a run stopped by the cap always reports
\* RoundCap + 1, so the report tells the two outcomes apart exactly when a
\* converged run reports at most RoundCap.
C12_ReportTellsConvergence ==
    pc = "finished" => (done <=> Report.total_time <= RoundCap)

\* the claim's scenario: two connected peers, peer 0 the seeder, and no more
\* pieces than a peer may transfer in a round
MinimalSwarm ==
    /\ Running
    /\ PEER_COUNT = 2
    /\ Seeder = 0
    /\ neighbors[0] = {1}
    /\ PIECE_COUNT <= PIECE_TRANSMIT_LIMIT

\* C13: minimal convergence.  Two connected peers, peer 0 the seeder,
\* PIECE_COUNT <= PIECE_TRANSMIT_LIMIT: when round 1 ends peer 1 is complete,
\* and the run ends there, converged, with total time 1, whatever the shuffle
\* and the candidates picked.
C13_MinimalConvergence ==
    MinimalSwarm =>
        /\ now <= 1
        /\ pc = "check" => completed[1] = PIECE_COUNT
        /\ pc = "finished" =>
               completed[1] = PIECE_COUNT /\ done /\ Report.total_time = 1

\* the minimal swarm with two pieces has ended its run
C13_Witness ==
    /\ MinimalSwarm
    /\ PIECE_COUNT = 2
    /\ pc = "finished"
    /\ Report.total_time = 1

\* C14: script A with PEER_COUNT = 1.  The construction ends with one peer
\* without neighbours, the seeder, and the run reports converged at round 0
\* (total time 0) without a work-item ever being in a plan.
C14_IsolatedPeerRoundZero ==
    (strategy = "A" /\ PEER_COUNT = 1 /\ Running) =>
        /\ Created = {0}
        /\ Seeder = 0
        /\ neighbors[0] = {}
        /\ \A p \in DOMAIN plan : plan[p] = 0
        /\ pc = "finished" => done /\ Report.total_time = 0

\* C15: script B with DEGREE >= PEER_COUNT or DEGREE * PEER_COUNT odd: the
\* construction fails; no peer and no graph exist and no round starts.
C15_RegularBuildRejected ==
    (strategy = "B" /\ (DEGREE >= PEER_COUNT \/ (DEGREE * PEER_COUNT) % 2 = 1)) =>
        /\ pc \in {"build", "error"}
        /\ Created = {}
        /\ peers = <<>>
        /\ now = 0
        /\ plan = <<>>

\* the constructor of script B has failed for a degree equal to the number
\* of peers
C15_Witness ==
    /\ strategy = "B"
    /\ pc = "error"
    /\ DEGREE = PEER_COUNT

\* a strategy parameter that is not positive
NonPositiveParameter ==
    \/ /\ strategy = "A"
       /\ \/ SOFT_CONNECTION_LIMIT <= 0
          \/ MAX_CONNECTION_LIMIT <= 0
          \/ FailureBudget <= 0
    \/ /\ strategy = "B"
       /\ DEGREE <= 0

\* C16: with a strategy parameter that is not positive the construction
\* fails under either script: no graph is returned, start() is never
\* entered.
C16_NonPositiveRejected == NonPositiveParameter => ~Running

\* C17: a peer other than the seeder that is complete has as its recorded
\* finish round (Peer.time) the round in which its completed counter reached
\* PIECE_COUNT, for every PIECE_COUNT >= 1; a peer that is not complete has
\* none recorded (Peer.time is still 0).  A complete peer that downloaded in
\* the round in progress completed in that round.
C17_FinishRoundRecorded ==
    Running =>
        \A p \in Created \ {Seeder} :
            /\ ~Done(p) => time[p] = 0
            /\ Done(p) => 1 <= time[p] /\ time[p] <= now
            /\ (pc = "fetch" /\ Done(p) /\ downloaded_current_turn[p] > 0) =>
                   time[p] = now

\* C18: the seeder is peer 0, the peer created first, whatever the shuffles
\* and the sort of script A did to the list.
C18_SeedIsPeerZero ==
    Running => Seeder = 0 /\ completed[0] = PIECE_COUNT

\* the peers not complete
Incomplete == {p \in Created : completed[p] # PIECE_COUNT}

\* C20: plan construction.  The plan built at the head of a round holds
\* exactly PIECE_TRANSMIT_LIMIT work-items for every peer that is not
\* complete at that moment and none for a complete peer: its length is
\* PIECE_TRANSMIT_LIMIT times the number of incomplete peers.
C20_PlanConstruction ==
    [][(pc = "plan" /\ pc' = "fetch") =>
          /\ DOMAIN plan' = Created
          /\ \A p \in Created :
                plan'[p] = IF p \in Incomplete THEN PIECE_TRANSMIT_LIMIT ELSE 0
          /\ Total(plan', Created) = PIECE_TRANSMIT_LIMIT * Cardinality(Incomplete)]_vars

\* the untouched plan of the second round, with a complete peer beside the
\* seeder and an incomplete one
C20_Witness ==
    /\ pc = "fetch"
    /\ now = 2
    /\ Total(plan, Created) = PIECE_TRANSMIT_LIMIT * Cardinality(Incomplete)
    /\ \E p \in Created \ {Seeder} : completed[p] = PIECE_COUNT /\ plan[p] = 0
    /\ \E q \in Incomplete : plan[q] = PIECE_TRANSMIT_LIMIT

\* this step is a work-item of p that transferred a piece to p
Transferred(p) ==
    /\ pc = "fetch"
    /\ pc' = "fetch"
    /\ \/ pieces'[p] # pieces[p]
       \/ completed'[p] # completed[p]
       \/ downloaded_current_turn'[p] # downloaded_current_turn[p]

\* C21: every transfer a work-item of P performs takes a pair (N, i) such
\* that, in the state just before it, N is a neighbour of P, N has uploaded
\* fewer than PIECE_TRANSMIT_LIMIT pieces this round, N owns piece i and P
\* does not.
C21_TransferFromCandidate ==
    [][\A p \in Created :
          Transferred(p) =>
              \E N \in neighbors[p], i \in PieceIndex :
                  /\ uploaded_current_turn[N] < PIECE_TRANSMIT_LIMIT
                  /\ pieces[N][i] = 1
                  /\ pieces[p][i] = 0
                  /\ pieces'[p][i] = 1
                  /\ uploaded_current_turn'[N] = uploaded_current_turn[N] + 1]_vars

\* a peer took the second piece and not the first from a neighbour that had
\* both, and the neighbour has upload quota left
C21_Witness ==
    /\ pc = "fetch"
    /\ PIECE_COUNT = 2
    /\ \E p \in Created \ {Seeder} :
        /\ Owned(p) = {1}
        /\ downloaded_current_turn[p] = 1
        /\ \E N \in neighbors[p] :
            /\ uploaded_current_turn[N] = 1
            /\ uploaded_current_turn[N] < PIECE_TRANSMIT_LIMIT

\* the effect of a transfer of piece c[2] from c[1] to p on everything but
\* Peer.time
TransferEffect(p, c) ==
    /\ pieces[p][c[2]] = 0
    /\ pieces' = [pieces EXCEPT ![p][c[2]] = 1]
    /\ completed' = [completed EXCEPT ![p] = completed[p] + 1]
    /\ downloaded_current_turn' =
           [downloaded_current_turn EXCEPT ![p] = downloaded_current_turn[p] + 1]
    /\ uploaded_current_turn' =
           [uploaded_current_turn EXCEPT ![c[1]] = uploaded_current_turn[c[1]] + 1]
    /\ UNCHANGED <<config, graph>>

\* C22 as stated: a work-item that transfers (N, i) to P changes exactly P's
\* ownership of i (0 to 1), P's completed (+1), P's downloaded_current_turn
\* (+1) and N's uploaded_current_turn (+1); every other field of P, of N and
\* of every other peer is unchanged.
C22_TransferChangesExactly ==
    [][\A p \in Created :
          Transferred(p) =>
              \E c \in neighbors[p] \X PieceIndex :
                  TransferEffect(p, c) /\ time' = time]_vars

\* C22 amended: a work-item that transfers (N, i) to P changes P's ownership
\* of i (0 to 1), P's completed (+1), P's downloaded_current_turn (+1), N's
\* uploaded_current_turn (+1) and possibly P's own Peer.time, which it may
\* set to the current round; nothing else changes.
C22_TransferChangesExactlyButTime ==
    [][\A p \in Created :
          Transferred(p) =>
              \E c \in neighbors[p] \X PieceIndex :
                  /\ TransferEffect(p, c)
                  /\ \A q \in Created \ {p} : time'[q] = time[q]
                  /\ time'[p] \in {time[p], now}]_vars

\* a transfer in the second round set the time of a peer that had none
C22_Witness ==
    /\ pc = "fetch"
    /\ now = 2
    /\ \E p \in Created \ {Seeder} :
        /\ time[p] = 2
        /\ downloaded_current_turn[p] = 1
        /\ \E N \in neighbors[p] : uploaded_current_turn[N] >= 1

\* C23: a work-item whose candidates list is empty, that of a peer without
\* neighbours included, changes no piece, no completed counter and no
\* per-round counter of any peer.
C23_EmptyCandidatesNoOp ==
    [][\A p \in Created :
          (pc = "fetch" /\ plan'[p] < plan[p] /\ Candidates(p) = {}) =>
              /\ pieces' = pieces
              /\ completed' = completed
              /\ UNCHANGED turn
              /\ time' = time]_vars

\* in a round in which a neighbour of the seeder downloaded, a peer without
\* neighbours that is not complete had a work-item processed
C23_Witness ==
    /\ pc = "fetch"
    /\ \E p \in Created :
        /\ neighbors[p] = {}
        /\ ~Done(p)
        /\ plan[p] < PIECE_TRANSMIT_LIMIT
    /\ \E q \in neighbors[Seeder] : downloaded_current_turn[q] > 0

\* C24: the graph does not change after the construction: no work-item, no
\* cleanup and no step of start() adds or removes an edge or touches
\* failed_connection_attempts.
C24_GraphImmutable ==
    [][Running =>
          /\ neighbors' = neighbors
          /\ failed_connection_attempts' = failed_connection_attempts]_vars

\* a run of script A in which a peer was turned away during the construction
\* ended after more than one round with pieces transferred
C24_Witness ==
    /\ strategy = "A"
    /\ pc = "finished"
    /\ now >= 2
    /\ \E p \in Created : failed_connection_attempts[p] > 0
    /\ \E p \in Created \ {Seeder} : completed[p] > 0 /\ neighbors[p] # {}

\* the number of neighbours of a peer
Degree(p) == Cardinality(neighbors[p])

\* this step ends the candidate loop of peer n
PhaseEnds == pc = "connect" /\ pc' = "build"

C26_SoftLimitStops ==
    /\ [](pc = "connect" => Degree(n) < SOFT_CONNECTION_LIMIT)
    /\ [][PhaseEnds => Cardinality(neighbors'[n]) <= SOFT_CONNECTION_LIMIT]_vars

\* the construction loop of script A has ended: the last peer stopped at the
\* soft limit and an earlier peer was taken above it by later peers
C26_Witness ==
    /\ strategy = "A"
    /\ pc = "build"
    /\ n = PEER_COUNT
    /\ PEER_COUNT = MaxPeers
    /\ SOFT_CONNECTION_LIMIT < MAX_CONNECTION_LIMIT
    /\ Degree(PEER_COUNT - 1) = SOFT_CONNECTION_LIMIT
    /\ \E p \in Created : Degree(p) > SOFT_CONNECTION_LIMIT

\* C27: script A.  A peer with index >= 1 ends its own candidate loop with a
\* degree below SOFT_CONNECTION_LIMIT only if it has gone through the whole
\* list of peers created before it or its failed_connection_attempts
\* exceeded the budget.  The construction does not fail for it: __init__
\* never raises, and after the loop it goes on to start() with the graph as
\* built.
C27_DegradedIsValid ==
    /\ [][(PhaseEnds /\ Cardinality(neighbors'[n]) < SOFT_CONNECTION_LIMIT) =>
             /\ n >= 1
             /\ \/ ci = Len(peers)
                \/ failed_connection_attempts'[n] > FailureBudget]_vars
    /\ [](strategy = "A" => pc # "error")
    /\ []((strategy = "A" /\ pc = "build") => ENABLED (CreatePeer \/ SortAndSeed))
    /\ [][(strategy = "A" /\ pc = "build" /\ n = PEER_COUNT) =>
             /\ pc' = "plan"
             /\ neighbors' = neighbors
             /\ DOMAIN neighbors = 0 .. PEER_COUNT - 1]_vars

\* a run of script A on a graph in which one peer ended below the soft limit
\* at the end of its list and another over the budget
C27_Witness ==
    /\ strategy = "A"
    /\ pc = "finished"
    /\ \E p, q \in Created \ {0} :
        /\ 0 < Degree(p)
        /\ Degree(p) < SOFT_CONNECTION_LIMIT
        /\ failed_connection_attempts[p] = 0
        /\ Degree(q) < SOFT_CONNECTION_LIMIT
        /\ failed_connection_attempts[q] > FailureBudget

\* the peers at distance 2 from the seeder
SecondRing ==
    {q \in Created \ ({Seeder} \cup neighbors[Seeder]) :
        neighbors[q] \cap neighbors[Seeder] # {}}

\* C29: availability is evaluated when the work-item is processed.  During
\* a round, a peer with a work-item left and download quota left can take
\* any piece it lacks from any neighbour that owns the piece now and has
\* upload quota left, whether the neighbour owned the piece when the round
\* began or received it earlier in the round.
C29_AvailabilityAtProcessing ==
    pc = "fetch" =>
        \A p \in Created :
            \A N \in neighbors[p], i \in PieceIndex :
                ( /\ plan[p] > 0
                  /\ ~Done(p)
                  /\ downloaded_current_turn[p] < PIECE_TRANSMIT_LIMIT
                  /\ uploaded_current_turn[N] < PIECE_TRANSMIT_LIMIT
                  /\ pieces[N][i] = 1
                  /\ pieces[p][i] = 0 ) =>
                ENABLED ( /\ FetchStep(p)
                          /\ pieces'[p][i] = 1
                          /\ uploaded_current_turn'[N] = uploaded_current_turn[N] + 1 )

\* at the end of round 1 a peer at distance 2 from the seeder owns a piece
C29_Witness ==
    /\ pc = "check"
    /\ now = 1
    /\ \E q \in SecondRing : completed[q] > 0 /\ Owned(q) # {}

\* C30: after a round at whose end every peer is complete start() executes
\* no further round and reports the number of that round.  The done test
\* follows the cleanup of every round and precedes the cap test: it ends the
\* loop with the clock untouched, also in the round after the cap; the clock
\* advances past a round only while some peer is incomplete, and nothing
\* executes after start() has returned.
C30_StopsAtConvergence ==
    /\ [][(pc = "check" /\ AllDone) =>
             /\ pc' = "finished"
             /\ done'
             /\ now' = now
             /\ Report.total_time' = now]_vars
    /\ [][(now' # now /\ now >= 1) => ~AllDone]_vars
    /\ [][pc # "finished"]_vars
    /\ [](pc = "finished" => (done <=> AllDone))

\* a swarm of MaxPeers peers converged in round 1 with rounds to spare
C30_Witness ==
    /\ pc = "finished"
    /\ done
    /\ PEER_COUNT = MaxPeers
    /\ Report.total_time = 1
    /\ RoundCap > 1

\* the pieces downloaded in the round so far, over all peers
Downloads == Total(downloaded_current_turn, Created)

\* this step is the cleanup that ends a round
RoundEnds == pc = "fetch" /\ pc' = "check"

\* C32: progress.  Every round that starts with a peer of the seeder's
\* connected component incomplete transfers at least one piece, whatever the
\* order of the plan and the candidates chosen: a round that ends without a
\* download (its pieces are those it started with) has every peer of the
\* component complete.
C32_RoundProgress ==
    [][RoundEnds => (Downloads >= 1 \/ \A p \in SeedComponent : Done(p))]_vars

\* the work-items of the second round are all processed: one piece was
\* transferred and a peer of the seeder's component is still incomplete
C32_Witness ==
    /\ pc = "fetch"
    /\ now = 2
    /\ \A p \in Created : plan[p] = 0
    /\ Downloads = 1
    /\ \E p \in SeedComponent : ~Done(p)

\* every peer can be reached from the seeder
Connected == SeedComponent = Created

\* the pieces the peers still lack
Missing == PEER_COUNT * PIECE_COUNT - Total(completed, Created)

\* the pieces the peers other than the seeder lack when start() is entered
ToTransfer == (PEER_COUNT - 1) * PIECE_COUNT

\* C33: convergence.  On a connected graph every round ended has taken at
\* least one piece off what is missing, so after (PEER_COUNT - 1) x
\* PIECE_COUNT rounds at the latest nothing is missing; with a cap of at
\* least that many rounds the run ends with every peer complete, the done
\* flag set and the clock within the cap, never by the cap test.
C33_Convergence ==
    (Running /\ Connected) =>
        /\ pc \in {"plan", "check", "finished"} =>
               (Missing = 0 \/ Missing <= ToTransfer - now)
        /\ pc = "fetch" => Missing <= ToTransfer - (now - 1)
        /\ (pc = "finished" /\ ToTransfer <= RoundCap) =>
               /\ done
               /\ AllDone
               /\ Missing = 0
               /\ now <= RoundCap
               /\ now <= ToTransfer \/ now = 1

\* a connected swarm of three peers took as many rounds as there were pieces
\* to transfer, the last round the cap allows, and ended converged
C33_Witness ==
    /\ pc = "finished"
    /\ Connected
    /\ PEER_COUNT = 3
    /\ ToTransfer = RoundCap
    /\ now = ToTransfer
    /\ done

\* this step is the head of the loop of start(): a round begins
RoundBegins == pc = "plan" /\ pc' = "fetch"

\* C34: start() executes at least 1 and at most RoundCap + 1 rounds, the cap
\* test coming after the clock was advanced and the round run, and the total
\* time it reports is the number of rounds executed: the clock starts at 0,
\* every round begun advances it by one and nothing else changes it.
C34_RoundCount ==
    /\ [](pc \in {"build", "connect", "error"} => now = 0)
    /\ [](pc = "plan" => 0 <= now /\ now <= RoundCap)
    /\ [](pc \in {"fetch", "check"} => 1 <= now /\ now <= RoundCap + 1)
    /\ [](pc = "finished" =>
             /\ 1 <= Report.total_time
             /\ Report.total_time <= RoundCap + 1
             /\ Report.total_time = now)
    /\ [][RoundBegins => now' = now + 1]_vars
    /\ [][now' # now => RoundBegins]_vars

\* a run stopped by the cap test reports RoundCap + 1 rounds
C34_Witness ==
    /\ pc = "finished"
    /\ ~done
    /\ ~AllDone
    /\ Report.total_time = RoundCap + 1

\* the peers that were incomplete when the round in progress began
StartedIncomplete ==
    {p \in Created : completed[p] - downloaded_current_turn[p] # PIECE_COUNT}

\* C35: at every point of a round the uploads of all peers and the downloads
\* of all peers add up to the same number, the number of pieces transferred
\* so far in the round (every step of a round raises it by the number of
\* pieces that step handed over), and that number is at most
\* PIECE_TRANSMIT_LIMIT x the number of peers incomplete when the round
\* began, less the work-items still in the plan.
C35_RoundSums ==
    /\ [](Total(uploaded_current_turn, Created) = Downloads)
    /\ [](pc = "fetch" =>
             /\ Downloads + Total(plan, Created)
                    <= PIECE_TRANSMIT_LIMIT * Cardinality(StartedIncomplete)
             /\ Downloads <= PIECE_TRANSMIT_LIMIT * Cardinality(StartedIncomplete))
    /\ [][(pc = "fetch" /\ pc' = "fetch") =>
             Total(downloaded_current_turn', Created) - Downloads
                 = Total(completed', Created) - Total(completed, Created)]_vars
    /\ [][RoundBegins => Total(downloaded_current_turn', Created) = 0]_vars

\* a round in which two peers began incomplete and every work-item
\* transferred a piece
C35_Witness ==
    /\ pc = "fetch"
    /\ Cardinality(StartedIncomplete) >= 2
    /\ Downloads = PIECE_TRANSMIT_LIMIT * Cardinality(StartedIncomplete)
    /\ \E p \in Created \ {Seeder} : uploaded_current_turn[p] > 0

\* C36: after r rounds a peer other than the seeder has completed at most
\* r x PIECE_TRANSMIT_LIMIT, the round in progress counted, so none is
\* complete before the end of round ceil(PIECE_COUNT / PIECE_TRANSMIT_LIMIT).
C36_CompletionRate ==
    Running =>
        \A p \in Created \ {Seeder} :
            /\ completed[p] <= now * PIECE_TRANSMIT_LIMIT
            /\ Done(p) => now * PIECE_TRANSMIT_LIMIT >= PIECE_COUNT

\* with two pieces and one transfer a round, a peer is complete at the end
\* of round 2
C36_Witness ==
    /\ pc = "check"
    /\ now = 2
    /\ PIECE_COUNT = 2
    /\ PIECE_TRANSMIT_LIMIT = 1
    /\ \E p \in Created \ {Seeder} : Done(p)

\* the scenario of the claim: script A, 1 <= soft <= max, more peers than
\* the soft limit
FirstPeersScenario ==
    /\ strategy = "A"
    /\ 1 <= SOFT_CONNECTION_LIMIT
    /\ SOFT_CONNECTION_LIMIT <= MAX_CONNECTION_LIMIT
    /\ PEER_COUNT > SOFT_CONNECTION_LIMIT

\* C37: script A with 1 <= SOFT_CONNECTION_LIMIT <= MAX_CONNECTION_LIMIT and
\* more peers than the soft limit: in the graph start() runs on, the peers 0 .. SOFT_CONNECTION_LIMIT are pairwise connected and have
\* recorded no failed attempt, whatever the shuffles; during the
\* construction a peer k of them that has left its loop is connected to
\* every peer created before it.
C37_FirstPeersClique ==
    FirstPeersScenario =>
        \A k \in 0 .. SOFT_CONNECTION_LIMIT :
            (k \in Range(peers) /\ k \in Created) =>
                /\ failed_connection_attempts[k] = 0
                /\ \A j \in 0 .. k - 1 : j \in neighbors[k] /\ k \in neighbors[j]

\* script A built a triangle out of its first three peers with soft limit 2
C37_Witness ==
    /\ FirstPeersScenario
    /\ pc = "plan"
    /\ SOFT_CONNECTION_LIMIT = 2
    /\ PEER_COUNT = 3
    /\ neighbors[2] = {0, 1}
    /\ neighbors[0] = {1, 2}

\* C38: the download quota test of fetch_step never fires.  A peer has
\* PIECE_TRANSMIT_LIMIT work-items a round and each downloads at most one
\* piece, so whenever a work-item of a peer is about to be processed its
\* downloaded_current_turn is below the limit, and fetch_step returns early
\* exactly when it would without the test.
C38_DownloadGuardNeverFires ==
    pc = "fetch" =>
        \A p \in Created :
            /\ downloaded_current_turn[p] + plan[p] <= PIECE_TRANSMIT_LIMIT
            /\ plan[p] > 0 =>
                   /\ downloaded_current_turn[p] < PIECE_TRANSMIT_LIMIT
                   /\ FetchReturnsEarly(p) <=> (Done(p) \/ Candidates(p) = {})

\* a peer downloaded with its first work-item; its last one is about to be
\* processed and can transfer a piece
C38_Witness ==
    /\ pc = "fetch"
    /\ PIECE_TRANSMIT_LIMIT = 2
    /\ \E p \in Created :
        /\ plan[p] = 1
        /\ downloaded_current_turn[p] = PIECE_TRANSMIT_LIMIT - 1
        /\ ~Done(p)
        /\ Candidates(p) # {}

====
